---- MODULE Spec2Model ----
(***************************************************************************)
(* Model of the early-boot memory subsystem of rex-kernel:                 *)
(*   kernel/src/main.rs            _start: boot configuration cells        *)
(*   kernel/src/memory.rs          address types                           *)
(*   kernel/src/pmm.rs             physical frame allocator                *)
(*   kernel/src/x64/page_table.rs  4-level page-table hierarchy            *)
(*                                                                         *)
(* A u64 is a tuple of four 16-bit limbs, least significant first, so that *)
(* every 64-bit value (in particular higher-half virtual addresses) is     *)
(* represented exactly and arithmetic wraps at 2^64 as in the kernel.      *)
(***************************************************************************)
EXTENDS Integers, Sequences, FiniteSets, TLC

VARIABLES
    DIRECT_MAP_START,      \* main.rs:26  OnceCell<u64>: Unset, or the value it was set to
    PHYSICAL_MEMORY_SIZE,  \* main.rs:27  OnceCell<u64>: Unset, or the value it was set to
    call,                  \* last address-type function applied, with its outcome
    memory_map,            \* the boot memory map handed to MemoryMapAllocator::new
    mem,                   \* physical memory: page number -> 512 words (sparse)
    allocator,             \* FRAME_ALLOCATOR: constructed flag, first_node, offset
    halted,                \* "no", or the reason the kernel panicked
    allocLog,              \* history: starting address returned by each allocate()
    sumAtNew,              \* history: free-list sum observed right after new()
    pml4,                  \* the top-level table in use: a PML4 value or the page of one
    mapLog,                \* history: one record per map() call
    overflow_checks,       \* build profile: TRUE panics on integer overflow, FALSE wraps
    iterator,              \* the PageTableIterator in use: its state and current
    boot                   \* main.rs _start: the statement reached

vars == <<DIRECT_MAP_START, PHYSICAL_MEMORY_SIZE, call, memory_map, mem,
          allocator, halted, allocLog, sumAtNew, pml4, mapLog, overflow_checks, iterator,
          boot>>

---------------------------------------------------------------------------
(* 64-bit unsigned arithmetic on limbs                                     *)

LimbBase == 2^16

U64Zero == <<0, 0, 0, 0>>

\* A natural number below 2^31 as a u64.
U(n) == <<n % LimbBase, n \div LimbBase, 0, 0>>

\* The natural number of a u64 known to be below 2^31.
ToNat(a) == a[1] + a[2] * LimbBase

FitsNat(a) == a[3] = 0 /\ a[4] = 0 /\ a[2] < 2^15

\* a + b with the carry out of bit 63 (u64::overflowing_add).
U64AddCarry(a, b) ==
    LET s1 == a[1] + b[1]
        s2 == a[2] + b[2] + (s1 \div LimbBase)
        s3 == a[3] + b[3] + (s2 \div LimbBase)
        s4 == a[4] + b[4] + (s3 \div LimbBase)
    IN  [val |-> <<s1 % LimbBase, s2 % LimbBase, s3 % LimbBase, s4 % LimbBase>>,
         overflow |-> s4 >= LimbBase]

U64Add(a, b) == U64AddCarry(a, b).val

\* a - b with the borrow out of bit 63.
U64SubBorrow(a, b) ==
    LET d1 == a[1] - b[1]
        b1 == IF d1 < 0 THEN 1 ELSE 0
        d2 == a[2] - b[2] - b1
        b2 == IF d2 < 0 THEN 1 ELSE 0
        d3 == a[3] - b[3] - b2
        b3 == IF d3 < 0 THEN 1 ELSE 0
        d4 == a[4] - b[4] - b3
    IN  [val |-> <<d1 % LimbBase, d2 % LimbBase, d3 % LimbBase, d4 % LimbBase>>,
         overflow |-> d4 < 0]

U64Sub(a, b) == U64SubBorrow(a, b).val

U64Lt(a, b) ==
    \/ a[4] < b[4]
    \/ a[4] = b[4] /\ a[3] < b[3]
    \/ a[4] = b[4] /\ a[3] = b[3] /\ a[2] < b[2]
    \/ a[4] = b[4] /\ a[3] = b[3] /\ a[2] = b[2] /\ a[1] < b[1]

U64Le(a, b) == a = b \/ U64Lt(a, b)

\* Bit i (0..63) of a u64.
Bit(a, i) == (a[(i \div 16) + 1] \div 2^(i % 16)) % 2

\* a << k for k in 0..63, wrapping: whole limbs move by k \div 16, bits by k % 16.
U64Shl(a, k) ==
    LET q == k \div 16
        r == k % 16
        limb(i) == IF i < 1 THEN 0 ELSE a[i]
        part(i) == ((limb(i - q) * 2^r) % LimbBase) + (limb(i - q - 1) \div 2^(16 - r))
    IN  <<part(1), part(2), part(3), part(4)>>

PageSize == 4096

\* a & 0xFFF == 0
LowBitsClear(a) == a[1] % PageSize = 0

---------------------------------------------------------------------------
(* memory.rs: PhysicalAddress                                              *)

\* Mutant: the lower bound written as a strict comparison.
PhysicalAddressNewOk_StrictLower(address, pms) ==
    /\ U64Lt(address, pms)
    /\ U64Lt(U(PageSize), address)

\* assert!(address < PHYSICAL_MEMORY_SIZE); assert!(address >= 0x1000)
PhysicalAddressNewOk(address, pms) ==
    /\ U64Lt(address, pms)
    /\ U64Le(U(PageSize), address)

is_frame_aligned(pa) == LowBitsClear(pa)

---------------------------------------------------------------------------
(* memory.rs: VirtualAddress (bitfield over u64)                           *)

\* Mutant: pdpt_index declared one bit too narrow.
VirtualAddressFrom_NarrowPdpt(v) ==
    [page_offset          |-> v[1] % 4096,
     page_table_index     |-> (v[1] \div 4096) + (v[2] % 32) * 16,
     page_directory_index |-> (v[2] \div 32) % 512,
     pdpt_index           |-> (v[2] \div 16384) + (v[3] % 64) * 4,
     pml4_index           |-> v[3] \div 128,
     sign_extension       |-> v[4]]

\* VirtualAddress::from(u64): the bitfield's field extraction.
VirtualAddressFrom(v) ==
    [page_offset          |-> v[1] % 4096,
     page_table_index     |-> (v[1] \div 4096) + (v[2] % 32) * 16,
     page_directory_index |-> (v[2] \div 32) % 512,
     pdpt_index           |-> (v[2] \div 16384) + (v[3] % 128) * 4,
     pml4_index           |-> v[3] \div 128,
     sign_extension       |-> v[4]]

\* u64::from(VirtualAddress): the bitfield's packing, used by address().
VirtualAddressInto(va) ==
    <<va.page_offset + (va.page_table_index % 16) * 4096,
      (va.page_table_index \div 16) + va.page_directory_index * 32
          + (va.pdpt_index % 4) * 16384,
      (va.pdpt_index \div 4) + va.pml4_index * 128,
      va.sign_extension>>

address(va) == VirtualAddressInto(va)

\* Mutant: the sign extension checked without relating it to bit 47.
VirtualAddressCreateOk_AnySign(v) ==
    LET new == VirtualAddressFrom(v)
    IN  new.sign_extension = 0 \/ new.sign_extension = 65535

\* The assertion of VirtualAddress::create.
VirtualAddressCreateOk(v) ==
    LET new == VirtualAddressFrom(v)
        bit8 == (new.pml4_index \div 256) % 2
    IN  \/ new.sign_extension = 0 /\ bit8 = 0
        \/ new.sign_extension = 65535 /\ bit8 = 1

---------------------------------------------------------------------------
(* Physical memory: page number -> words.  A page is 512 u64 words; only   *)
(* its non-zero words are stored, every other word reads as zero.          *)

NoWords == [i \in {} |-> U64Zero]

Word(page, i) == IF i \in DOMAIN page THEN page[i] ELSE U64Zero

WriteWord(page, i, w) ==
    IF w = U64Zero
    THEN [j \in DOMAIN page \ {i} |-> page[j]]
    ELSE [j \in DOMAIN page \cup {i} |-> IF j = i THEN w ELSE page[j]]

\* A direct-mapped pointer refers to RAM when it lies at or above the offset
\* and the physical address it stands for is inside the memory the map reports.
PtrInRam(m, offset, ptr) ==
    /\ U64Le(offset, ptr)
    /\ FitsNat(U64Sub(ptr, offset))
    /\ (ToNat(U64Sub(ptr, offset)) \div PageSize) \in DOMAIN m

PtrPage(offset, ptr) == ToNat(U64Sub(ptr, offset)) \div PageSize

\* pmm.rs LinkedListNode, #[repr(C)]: size is word 0 of its page, next word 1.
\* ptr.read() yields a copy of the node.
ReadNode(m, offset, ptr) ==
    [size |-> Word(m[PtrPage(offset, ptr)], 0),
     next |-> Word(m[PtrPage(offset, ptr)], 1)]

---------------------------------------------------------------------------
(* main.rs: boot configuration                                             *)

\* main.rs:63-70: highest_address = max over entries of base + len.
RECURSIVE HighestAddress(_, _)
HighestAddress(map, i) ==
    IF i > Len(map) THEN 0
    ELSE LET rest == HighestAddress(map, i + 1)
             here == map[i].base + map[i].len
         IN  IF here > rest THEN here ELSE rest

---------------------------------------------------------------------------
(* pmm.rs: Frame and MemoryMapAllocator                                    *)

\* Frame::from_starting_address: assert!(starting_address & 0xFFF == 0)
FrameFromStartingAddressOk(starting_address) == LowBitsClear(starting_address)

UsableEntries(map) == SelectSeq(map, LAMBDA e : e.usable)

\* new(), lines 39-45: base of the first usable entry, 0 when there is none.
PhysicalStartAddress(map) ==
    IF UsableEntries(map) = <<>> THEN 0 ELSE UsableEntries(map)[1].base

\* new(), lines 52-63: the node value computed for one usable entry.  It is a
\* local copy obtained with read(); iter.peek() looks at the iterator that the
\* loop never advances (the loop runs over iter.clone()), so next is always
\* the first usable entry.  The copy is dropped at the end of the iteration.
NewLocalNode(map, offset, entry) ==
    [size |-> U(entry.len \div PageSize),
     next |-> IF UsableEntries(map) = <<>> THEN U64Zero
              ELSE U64Add(U(UsableEntries(map)[1].base), offset)]

\* new(), lines 52-63 as a whole: what the loop leaves in memory.
NewLoopMemory(m, map, offset) == m

\* new(), lines 65-69.
NewAllocator(map, offset) ==
    [constructed |-> TRUE,
     physical_memory_offset |-> offset,
     first_node |-> U64Add(U(PhysicalStartAddress(map)), offset)]

\* The nodes reachable from ptr by following next, each counted once.
RECURSIVE ReachableNodes(_, _, _, _)
ReachableNodes(m, offset, ptr, seen) ==
    IF ptr = U64Zero \/ ptr \in seen \/ ~PtrInRam(m, offset, ptr) THEN seen
    ELSE ReachableNodes(m, offset, ReadNode(m, offset, ptr).next, seen \cup {ptr})

RECURSIVE SumSizes(_, _, _)
SumSizes(m, offset, ptrs) ==
    IF ptrs = {} THEN 0
    ELSE LET p == CHOOSE q \in ptrs : TRUE
         IN  ToNat(ReadNode(m, offset, p).size) + SumSizes(m, offset, ptrs \ {p})

\* Sum of size over the free-list runs reachable from first_node.
FreeListSum(m, al) ==
    SumSizes(m, al.physical_memory_offset,
             ReachableNodes(m, al.physical_memory_offset, al.first_node, {}))

\* (size - 1) * 0x1000 overflows a u64 when any of the top 12 bits is set.
MulPageOverflows(a) == a[4] >= 16

\* Mutant: allocate() without the early return on first_node.next.is_null(), so
\* that the last node is handed out and self.first_node becomes null.
AllocateOutcome_TakesLastNode(m, al, oc) ==
    LET offset == al.physical_memory_offset
        stay(p, f) == [panic |-> p, frame |-> f, first_node |-> al.first_node]
    IN
    IF al.first_node = U64Zero THEN stay("First node is null!", U64Zero)
    ELSE IF ~PtrInRam(m, offset, al.first_node) THEN stay("page fault", U64Zero)
    ELSE
    LET first_node == ReadNode(m, offset, al.first_node)
        phys == U64Sub(al.first_node, offset)
        frame_address == U64Add(U64Shl(U64Sub(first_node.size, U(1)), 12), phys)
    IN
    IF first_node.size = U(1)
    THEN [panic |-> "no", frame |-> phys, first_node |-> first_node.next]
    ELSE stay("no", frame_address)

\* allocate(), lines 74-95, on allocator al over memory m.  Yields the panic
\* ("no" when the call returns), the starting address of the frame returned
\* and the value of self.first_node afterwards.  Memory is only read: the
\* node is a copy made by read(), and "first_node.size -= 1" changes the copy.
AllocateOutcome(m, al, oc) ==
    LET offset == al.physical_memory_offset
        stay(p, f) == [panic |-> p, frame |-> f, first_node |-> al.first_node]
    IN
    IF al.first_node = U64Zero THEN stay("First node is null!", U64Zero)
    ELSE IF ~PtrInRam(m, offset, al.first_node) THEN stay("page fault", U64Zero)
    ELSE
    LET first_node == ReadNode(m, offset, al.first_node)
        phys == U64SubBorrow(al.first_node, offset)
        dec == U64SubBorrow(first_node.size, U(1))
        scaled == U64Shl(dec.val, 12)
        sum == U64AddCarry(scaled, phys.val)
    IN
    IF first_node.next = U64Zero THEN stay("no", U64Zero)
    ELSE IF oc /\ phys.overflow THEN stay("attempt to subtract with overflow", U64Zero)
    ELSE IF first_node.size = U(1) THEN
        IF FrameFromStartingAddressOk(phys.val)
        THEN [panic |-> "no", frame |-> phys.val, first_node |-> first_node.next]
        ELSE [panic |-> "assertion failed: starting_address & 0xFFF == 0",
              frame |-> U64Zero, first_node |-> first_node.next]
    ELSE IF oc /\ dec.overflow THEN stay("attempt to subtract with overflow", U64Zero)
    ELSE IF oc /\ MulPageOverflows(dec.val)
         THEN stay("attempt to multiply with overflow", U64Zero)
    ELSE IF oc /\ sum.overflow THEN stay("attempt to add with overflow", U64Zero)
    ELSE IF FrameFromStartingAddressOk(sum.val) THEN stay("no", sum.val)
    ELSE stay("assertion failed: starting_address & 0xFFF == 0", U64Zero)

\* free(), lines 109-155: the loop, entered with current_node a copy of the
\* node at ptr.  "(current_node as u64)" is read as the address of that node.
\* Every change to current_node changes the copy; memory is written only in
\* the prepends_next branch (lines 138-148).  branch names the branch that
\* broke out of the loop; seen are the nodes already passed, and a list that
\* leads back to one of them keeps the loop running for ever.
RECURSIVE FreeLoop(_, _, _, _, _, _, _)
FreeLoop(m, offset, ptr, current_node, frame, oc, seen) ==
    LET phys == U64SubBorrow(ptr, offset)
        scaled == U64Shl(current_node.size, 12)
        end == U64AddCarry(scaled, phys.val)
        below == U64SubBorrow(current_node.next, U(4096))
        appends_current == end.val = frame
        prepends_next == current_node.next # U64Zero /\ below.val = frame
        new_next == U64AddCarry(current_node.next, U(4096))
        stop(p, b) == [panic |-> p, mem |-> m, branch |-> b]
    IN  IF oc /\ phys.overflow THEN stop("attempt to subtract with overflow", "none")
        ELSE IF oc /\ (MulPageOverflows(current_node.size) \/ end.overflow)
        THEN stop("attempt to multiply or add with overflow", "none")
        ELSE IF oc /\ current_node.next # U64Zero /\ below.overflow
        THEN stop("attempt to subtract with overflow", "none")
        ELSE IF appends_current /\ prepends_next
        THEN IF ~PtrInRam(m, offset, current_node.next) THEN stop("page fault", "none")
             ELSE stop("no", "both")
        ELSE IF appends_current THEN stop("no", "appends_current")
        ELSE IF prepends_next
        THEN IF ~PtrInRam(m, offset, current_node.next) \/ ~PtrInRam(m, offset, new_next.val)
             THEN stop("page fault", "none")
             ELSE LET next_node == ReadNode(m, offset, current_node.next)
                      dec == U64SubBorrow(next_node.size, U(1))
                      moved == WriteWord(WriteWord(m[PtrPage(offset, new_next.val)], 0, dec.val),
                                         1, next_node.next)
                      cleared == WriteWord(WriteWord(m[PtrPage(offset, current_node.next)],
                                                     0, U64Zero), 1, U64Zero)
                  IN  IF oc /\ dec.overflow
                      THEN [panic |-> "attempt to subtract with overflow", branch |-> "none",
                            mem |-> [m EXCEPT ![PtrPage(offset, new_next.val)] =
                                       WriteWord(WriteWord(@, 0, next_node.size), 1, next_node.next)]]
                      ELSE [panic |-> "no", branch |-> "prepends_next",
                            mem |-> [m EXCEPT ![PtrPage(offset, new_next.val)] = moved,
                                              ![PtrPage(offset, current_node.next)] = cleared]]
        ELSE IF current_node.next = U64Zero THEN stop("explicit panic", "none")
        ELSE IF ~PtrInRam(m, offset, current_node.next) THEN stop("page fault", "none")
        ELSE IF current_node.next \in seen \cup {ptr} THEN stop("free() never returns", "none")
        ELSE FreeLoop(m, offset, current_node.next, ReadNode(m, offset, current_node.next),
                      frame, oc, seen \cup {ptr})

\* free(frame), lines 97-157, on allocator al over memory m: the panic ("no"
\* when the call returns), the memory afterwards and the branch taken.
\* self.first_node is never assigned.
FreeOutcome(m, al, frame, oc) ==
    IF frame = U64Zero
    THEN [panic |-> "Freed Frame starting address is null!", mem |-> m, branch |-> "none"]
    ELSE IF al.first_node = U64Zero
    THEN [panic |-> "first node is null!", mem |-> m, branch |-> "none"]
    ELSE IF ~PtrInRam(m, al.physical_memory_offset, al.first_node)
    THEN [panic |-> "page fault", mem |-> m, branch |-> "none"]
    ELSE FreeLoop(m, al.physical_memory_offset, al.first_node,
                  ReadNode(m, al.physical_memory_offset, al.first_node), frame, oc, {})

---------------------------------------------------------------------------
(* Boot environment                                                        *)

\* The higher-half direct map offset the bootloader reports (hhdm_response.offset):
\* 0xFFFF_8000_0000_0000.
HhdmOffset == <<0, 0, 32768, 65535>>

\* Largest value found in the size word of a page that was never initialised.
MaxGarbageSize == 2

\* Number of allocate() calls followed.
MaxAllocs == 4

\* {base 0x1000, len 0x4000, usable}
MapScenario == <<[base |-> 4096, len |-> 16384, usable |-> TRUE]>>

\* page 0 reserved, pages 1-2 usable, pages 3-6 reserved, pages 7-8 usable
MapTwoRegions ==
    <<[base |-> 0,     len |-> 4096,  usable |-> FALSE],
      [base |-> 4096,  len |-> 8192,  usable |-> TRUE],
      [base |-> 12288, len |-> 16384, usable |-> FALSE],
      [base |-> 28672, len |-> 8192,  usable |-> TRUE]>>

MemoryMaps == {MapScenario, MapTwoRegions}

RamPages(map) == 0 .. (HighestAddress(map, 1) \div PageSize) - 1

UsableBasePages(map) ==
    {UsableEntries(map)[i].base \div PageSize : i \in 1 .. Len(UsableEntries(map))}

\* What the first two words of a free page may hold before the kernel has
\* written to it: any size up to MaxGarbageSize, and a null pointer or the
\* direct-mapped address of the first page of a usable region.
GarbageHeaders(map) ==
    {[size |-> U(sz), next |-> nx] :
        sz \in 0 .. MaxGarbageSize,
        nx \in {U64Zero} \cup {U64Add(U(b * PageSize), HhdmOffset) : b \in UsableBasePages(map)}}

HeaderPage(h) == WriteWord(WriteWord(NoWords, 0, h.size), 1, h.next)

NoCall == [fn |-> "none"]

NoTable == [kind |-> "none"]

NoIterator == [state |-> "none"]

InitPmm ==
    /\ DIRECT_MAP_START = HhdmOffset
    /\ memory_map \in MemoryMaps
    /\ PHYSICAL_MEMORY_SIZE = U(HighestAddress(memory_map, 1))
    /\ overflow_checks \in BOOLEAN
    /\ \E g \in [UsableBasePages(memory_map) -> GarbageHeaders(memory_map)] :
          mem = [pg \in RamPages(memory_map) |->
                    IF pg \in DOMAIN g THEN HeaderPage(g[pg]) ELSE NoWords]
    /\ allocator = [constructed |-> FALSE, physical_memory_offset |-> U64Zero,
                    first_node |-> U64Zero]
    /\ halted = "no"
    /\ allocLog = <<>>
    /\ sumAtNew = 0
    /\ pml4 = NoTable
    /\ mapLog = <<>>
    /\ iterator = NoIterator
    /\ boot = "allocator"
    /\ call = NoCall

\* main.rs:110-115: FRAME_ALLOCATOR.set(MemoryMapAllocator::new(map, offset)).
New ==
    /\ halted = "no"
    /\ ~allocator.constructed
    /\ boot = "allocator"
    /\ boot' = "done"
    /\ allocator' = NewAllocator(memory_map, DIRECT_MAP_START)
    /\ mem' = NewLoopMemory(mem, memory_map, DIRECT_MAP_START)
    /\ sumAtNew' = FreeListSum(mem', allocator')
    /\ UNCHANGED <<DIRECT_MAP_START, PHYSICAL_MEMORY_SIZE, call, memory_map,
                   halted, allocLog, pml4, mapLog, overflow_checks, iterator>>

\* FRAME_ALLOCATOR.lock().allocate()
Allocate ==
    /\ halted = "no"
    /\ allocator.constructed
    /\ Len(allocLog) < MaxAllocs
    /\ \E r \in {AllocateOutcome(mem, allocator, overflow_checks)} :
           /\ halted' = r.panic
           /\ allocator' = [allocator EXCEPT !.first_node = r.first_node]
           /\ allocLog' = IF r.panic = "no" THEN Append(allocLog, r.frame) ELSE allocLog
    /\ UNCHANGED <<DIRECT_MAP_START, PHYSICAL_MEMORY_SIZE, call, memory_map, mem,
                   sumAtNew, pml4, mapLog, overflow_checks, iterator, boot>>

\* Frames handed to free(): the null frame and every page of the memory map.
FreeSamples(map) == {U(pg * PageSize) : pg \in {0} \cup RamPages(map)}

\* FRAME_ALLOCATOR.lock().free(frame).  call keeps the outcome together with
\* the memory and the free-list nodes as they were before the call.
Free ==
    /\ halted = "no"
    /\ allocator.constructed
    /\ call = NoCall
    /\ \E frame \in FreeSamples(memory_map) :
          \E r \in {FreeOutcome(mem, allocator, frame, overflow_checks)} :
              /\ mem' = r.mem
              /\ halted' = r.panic
              /\ call' = [fn |-> "free", arg |-> frame, ok |-> r.panic = "no",
                          branch |-> r.branch, mem_before |-> mem,
                          first_node |-> allocator.first_node,
                          nodes_before |-> ReachableNodes(mem, allocator.physical_memory_offset,
                                                          allocator.first_node, {})]
    /\ UNCHANGED <<DIRECT_MAP_START, PHYSICAL_MEMORY_SIZE, memory_map, allocator,
                   allocLog, sumAtNew, pml4, mapLog, overflow_checks, iterator, boot>>


---------------------------------------------------------------------------
(* main.rs: _start from the memory map to the frame allocator              *)

\* A OnceCell nothing has been stored in.
Unset == <<>>

\* Mutant: set() on a full cell stores the new value.
OnceCellSet_Overwrites(cell, value) == [panic |-> "no", cell |-> value]

\* CELL.set(value).unwrap(), main.rs:70 and 87: set() stores the value in an
\* empty cell and returns Err on a full one, which unwrap() turns into a panic.
OnceCellSet(cell, value) ==
    IF cell = Unset THEN [panic |-> "no", cell |-> value]
    ELSE [panic |-> "called Result::unwrap() on an Err value", cell |-> cell]

\* The memory maps the bootloader may report: the ones above and an empty one.
BootMemoryMaps == MemoryMaps \cup {<<>>}

InitBoot ==
    /\ DIRECT_MAP_START = Unset
    /\ PHYSICAL_MEMORY_SIZE = Unset
    /\ memory_map \in BootMemoryMaps
    /\ overflow_checks \in BOOLEAN
    /\ \E g \in [UsableBasePages(memory_map) -> GarbageHeaders(memory_map)] :
          mem = [pg \in RamPages(memory_map) |->
                    IF pg \in DOMAIN g THEN HeaderPage(g[pg]) ELSE NoWords]
    /\ allocator = [constructed |-> FALSE, physical_memory_offset |-> U64Zero,
                    first_node |-> U64Zero]
    /\ halted = "no"
    /\ allocLog = <<>>
    /\ sumAtNew = 0
    /\ pml4 = NoTable
    /\ mapLog = <<>>
    /\ iterator = NoIterator
    /\ boot = "memory_map"
    /\ call = NoCall

\* _start, main.rs:62-75: the memory map response, highest_address and
\* PHYSICAL_MEMORY_SIZE.set(highest_address).unwrap().
StartMemoryMap ==
    /\ halted = "no"
    /\ boot = "memory_map"
    /\ \E received \in BOOLEAN :
          IF ~received
          THEN /\ halted' = "Memory map not received!"
               /\ UNCHANGED <<PHYSICAL_MEMORY_SIZE, boot, call>>
          ELSE IF HighestAddress(memory_map, 1) = 0
          THEN /\ halted' = "Error in memory map!"
               /\ UNCHANGED <<PHYSICAL_MEMORY_SIZE, boot, call>>
          ELSE \E r \in {OnceCellSet(PHYSICAL_MEMORY_SIZE, U(HighestAddress(memory_map, 1)))} :
                  /\ PHYSICAL_MEMORY_SIZE' = r.cell
                  /\ halted' = r.panic
                  /\ boot' = IF r.panic = "no" THEN "hhdm" ELSE boot
                  /\ call' = [fn |-> "OnceCell::set", cell |-> "PHYSICAL_MEMORY_SIZE",
                              before |-> PHYSICAL_MEMORY_SIZE, ok |-> r.panic = "no"]
    /\ UNCHANGED <<DIRECT_MAP_START, memory_map, mem, allocator, allocLog, sumAtNew,
                   pml4, mapLog, overflow_checks, iterator>>

\* _start, main.rs:86-91: the HHDM response and
\* DIRECT_MAP_START.set(hhdm_response.offset).unwrap().
StartHhdm ==
    /\ halted = "no"
    /\ boot = "hhdm"
    /\ \E received \in BOOLEAN :
          IF ~received
          THEN /\ halted' = "HHDM response not received!"
               /\ UNCHANGED <<DIRECT_MAP_START, boot, call>>
          ELSE \E r \in {OnceCellSet(DIRECT_MAP_START, HhdmOffset)} :
                  /\ DIRECT_MAP_START' = r.cell
                  /\ halted' = r.panic
                  /\ boot' = IF r.panic = "no" THEN "rsdp" ELSE boot
                  /\ call' = [fn |-> "OnceCell::set", cell |-> "DIRECT_MAP_START",
                              before |-> DIRECT_MAP_START, ok |-> r.panic = "no"]
    /\ UNCHANGED <<PHYSICAL_MEMORY_SIZE, memory_map, mem, allocator, allocLog, sumAtNew,
                   pml4, mapLog, overflow_checks, iterator>>

\* _start, main.rs:93-108: the RSDP response, then the IDT is built and loaded.
StartRsdp ==
    /\ halted = "no"
    /\ boot = "rsdp"
    /\ \E received \in BOOLEAN :
          IF received THEN boot' = "allocator" /\ UNCHANGED halted
          ELSE halted' = "RSDP response not received or invalid!" /\ UNCHANGED boot
    /\ UNCHANGED <<DIRECT_MAP_START, PHYSICAL_MEMORY_SIZE, call, memory_map, mem, allocator,
                   allocLog, sumAtNew, pml4, mapLog, overflow_checks, iterator>>

\* Values handed to set() on a cell that is already full.
SetSamples == {U(4096), HhdmOffset}

\* A further CELL.set(value).unwrap(), as at main.rs:70 and 87, on a cell that
\* has been set.
SetAgain ==
    /\ halted = "no"
    /\ \E value \in SetSamples :
          \/ /\ PHYSICAL_MEMORY_SIZE # Unset
             /\ \E r \in {OnceCellSet(PHYSICAL_MEMORY_SIZE, value)} :
                   /\ PHYSICAL_MEMORY_SIZE' = r.cell
                   /\ halted' = r.panic
                   /\ call' = [fn |-> "OnceCell::set", cell |-> "PHYSICAL_MEMORY_SIZE",
                               before |-> PHYSICAL_MEMORY_SIZE, ok |-> r.panic = "no"]
             /\ UNCHANGED DIRECT_MAP_START
          \/ /\ DIRECT_MAP_START # Unset
             /\ \E r \in {OnceCellSet(DIRECT_MAP_START, value)} :
                   /\ DIRECT_MAP_START' = r.cell
                   /\ halted' = r.panic
                   /\ call' = [fn |-> "OnceCell::set", cell |-> "DIRECT_MAP_START",
                               before |-> DIRECT_MAP_START, ok |-> r.panic = "no"]
             /\ UNCHANGED PHYSICAL_MEMORY_SIZE
    /\ UNCHANGED <<memory_map, mem, allocator, allocLog, sumAtNew,
                   pml4, mapLog, overflow_checks, iterator, boot>>

NextBoot ==
    \/ StartMemoryMap
    \/ StartHhdm
    \/ StartRsdp
    \/ New
    \/ SetAgain

SpecBoot == InitBoot /\ [][NextBoot]_vars

\* C21: DIRECT_MAP_START and PHYSICAL_MEMORY_SIZE are set before the frame
\* allocator is constructed, a cell that has been set keeps its value in every
\* later step, and set() on a cell that has been set panics.
C21_CellsSetOnce ==
    /\ [](allocator.constructed => (DIRECT_MAP_START # Unset /\ PHYSICAL_MEMORY_SIZE # Unset))
    /\ [][/\ DIRECT_MAP_START # Unset => DIRECT_MAP_START' = DIRECT_MAP_START
          /\ PHYSICAL_MEMORY_SIZE # Unset => PHYSICAL_MEMORY_SIZE' = PHYSICAL_MEMORY_SIZE]_vars
    /\ []((call.fn = "OnceCell::set" /\ call.before # Unset) => (~call.ok /\ halted # "no"))

\* C21 witness: after the allocator was constructed a further set() was tried
\* on DIRECT_MAP_START, which still holds the offset stored during boot.
C21_Witness ==
    /\ allocator.constructed
    /\ call.fn = "OnceCell::set" /\ call.cell = "DIRECT_MAP_START" /\ call.before # Unset
    /\ DIRECT_MAP_START = HhdmOffset

---------------------------------------------------------------------------
(* memory.rs: DirectMappedAddress                                          *)

\* from_virtual(v), lines 48-58: the panic ("no" when it returns) and the
\* physical address stored, which is PhysicalAddress::new(virtual_address.address()).
FromVirtual(v) ==
    LET physical_address == U64Sub(v, DIRECT_MAP_START)
    IN  IF ~U64Lt(DIRECT_MAP_START, v)
        THEN [panic |-> "Attempted to construct DirectMappedAddress with address lower than DIRECT_MAP_START",
              physical_address |-> U64Zero]
        ELSE IF ~U64Lt(physical_address, PHYSICAL_MEMORY_SIZE)
        THEN [panic |-> "assertion failed: physical_address < PHYSICAL_MEMORY_SIZE",
              physical_address |-> U64Zero]
        ELSE IF ~PhysicalAddressNewOk(v, PHYSICAL_MEMORY_SIZE)
        THEN [panic |-> "PhysicalAddress::new assertion failed", physical_address |-> U64Zero]
        ELSE [panic |-> "no", physical_address |-> v]

\* try_from_virtual(v), lines 60-74: whether Some is returned and the physical
\* address it holds.
TryFromVirtual(v) ==
    IF U64Le(v, DIRECT_MAP_START) THEN [some |-> FALSE, physical_address |-> U64Zero]
    ELSE IF ~U64Lt(U64Sub(v, DIRECT_MAP_START), PHYSICAL_MEMORY_SIZE)
    THEN [some |-> FALSE, physical_address |-> U64Zero]
    ELSE [some |-> TRUE, physical_address |-> U64Sub(v, DIRECT_MAP_START)]

\* get_virtual_address(), lines 87-89: physical address + DIRECT_MAP_START,
\* passed through VirtualAddress::create.
GetVirtualAddress(pa) ==
    LET sum == U64AddCarry(pa, DIRECT_MAP_START)
    IN  IF overflow_checks /\ sum.overflow
        THEN [panic |-> "attempt to add with overflow", address |-> U64Zero]
        ELSE IF ~VirtualAddressCreateOk(sum.val)
        THEN [panic |-> "Attempted to create non canonical virtual address",
              address |-> U64Zero]
        ELSE [panic |-> "no", address |-> address(VirtualAddressFrom(sum.val))]

\* as_pointer::<T>() and as_pointer_with_size::<T>(size), lines 92-118, for an
\* object of the given size and alignment (a power of two up to 4096).
AsPointer(pa, size, align) ==
    LET end == U64AddCarry(pa, size)
        virt == GetVirtualAddress(pa)
        fail(msg) == [panic |-> msg, pointer |-> U64Zero]
    IN  IF overflow_checks /\ end.overflow THEN fail("attempt to add with overflow")
        ELSE IF ~U64Le(end.val, PHYSICAL_MEMORY_SIZE)
        THEN fail("Attempted to construct pointer to value that exceeds the bounds of physical memory")
        ELSE IF virt.panic # "no" THEN fail(virt.panic)
        ELSE IF virt.address[1] % align # 0
        THEN fail("Attempted to get unaligned address as pointer!")
        ELSE [panic |-> "no", pointer |-> virt.address]

---------------------------------------------------------------------------
(* page_table.rs: entries                                                  *)

\* Bit 0, 1, 7 and 63 of an entry; the same position in every entry type.
EntryPresent(e) == e[1] % 2 = 1
EntryReadWrite(e) == (e[1] \div 2) % 2 = 1
EntryPageSize(e) == (e[1] \div 128) % 2 = 1
EntryExecuteDisable(e) == e[4] \div 32768 = 1

\* internal_addr() << 12 for the entry types whose address is bits 12..51.
EntryAddressBits(e) == <<e[1] - (e[1] % 4096), e[2], e[3], e[4] % 16>>

\* set_internal_addr(physical_address >> 12)
SetAddress(e, pa) ==
    <<(e[1] % 4096) + (pa[1] - (pa[1] % 4096)), pa[2], pa[3],
      (e[4] - (e[4] % 16)) + (pa[4] % 16)>>

SetPresent(e, b) == <<e[1] - (e[1] % 2) + (IF b THEN 1 ELSE 0), e[2], e[3], e[4]>>

SetReadWrite(e, b) ==
    <<e[1] - ((e[1] \div 2) % 2) * 2 + (IF b THEN 2 ELSE 0), e[2], e[3], e[4]>>

SetExecuteDisable(e, b) == <<e[1], e[2], e[3], (e[4] % 32768) + (IF b THEN 32768 ELSE 0)>>

\* Pml4Entry::pdpt, PdptEntryPageDirectory::page_directory and
\* PageDirectoryEntryPageTable::page_table: address() validated by
\* PhysicalAddress::new, then as_pointer of a 4096-byte, 4096-aligned table.
NextTablePointer(e) ==
    IF ~PhysicalAddressNewOk(EntryAddressBits(e), PHYSICAL_MEMORY_SIZE)
    THEN [panic |-> "PhysicalAddress::new assertion failed", pointer |-> U64Zero]
    ELSE AsPointer(EntryAddressBits(e), U(4096), 4096)

---------------------------------------------------------------------------
(* page_table.rs: table creation                                          *)
(* A walk state k holds the memory, the allocator, the allocation log, the *)
(* panic so far and the pointer to the table reached.                      *)

\* Mutant: the loop that zeroes the 512 entries left out.
TableNew_EntriesNotZeroed(k, align) ==
    CHOOSE r \in
      {LET al2 == [k.al EXCEPT !.first_node = a.first_node]
           logged == Append(k.log, a.frame)
       IN  IF a.panic # "no" THEN [k EXCEPT !.panic = a.panic, !.al = al2]
           ELSE IF a.frame = U64Zero
           THEN [k EXCEPT !.panic = "called Option::unwrap() on a None value",
                          !.al = al2, !.log = logged]
           ELSE CHOOSE r2 \in
             {IF ptr.panic # "no"
              THEN [k EXCEPT !.panic = ptr.panic, !.al = al2, !.log = logged]
              ELSE [k EXCEPT !.al = al2, !.log = logged, !.table = ptr.pointer]
              : ptr \in {AsPointer(a.frame, U(4096), align)}} : TRUE
       : a \in {AllocateOutcome(k.mem, k.al, overflow_checks)}} : TRUE

\* Pdpt::new, PageDirectory::new, PageTable::new (and PML4::new with
\* align 8): one allocate(), unwrap, as_pointer, then all 512 entries zeroed.
\* (x \in {e} names the value of e, computed once.)
TableNew(k, align) ==
    CHOOSE r \in
      {LET al2 == [k.al EXCEPT !.first_node = a.first_node]
           logged == Append(k.log, a.frame)
       IN  IF a.panic # "no" THEN [k EXCEPT !.panic = a.panic, !.al = al2]
           ELSE IF a.frame = U64Zero
           THEN [k EXCEPT !.panic = "called Option::unwrap() on a None value",
                          !.al = al2, !.log = logged]
           ELSE CHOOSE r2 \in
             {IF ptr.panic # "no"
              THEN [k EXCEPT !.panic = ptr.panic, !.al = al2, !.log = logged]
              ELSE [k EXCEPT !.al = al2, !.log = logged,
                      !.mem = [k.mem EXCEPT ![PtrPage(DIRECT_MAP_START, ptr.pointer)] = NoWords],
                      !.table = ptr.pointer]
              : ptr \in {AsPointer(a.frame, U(4096), align)}} : TRUE
       : a \in {AllocateOutcome(k.mem, k.al, overflow_checks)}} : TRUE

---------------------------------------------------------------------------
(* Frames and the frame allocator: the operations together                 *)

\* Starting addresses handed to Frame::from_starting_address.
StartingAddressSamples == {U64Zero, U(4096), U(4097), U(8192)}

\* Frame::from_starting_address(starting_address), pmm.rs:9-14.
FrameFromStartingAddress ==
    /\ halted = "no"
    /\ call = NoCall
    /\ \E a \in StartingAddressSamples :
          /\ call' = [fn |-> "Frame::from_starting_address", arg |-> a,
                      ok |-> FrameFromStartingAddressOk(a), value |-> [starting_address |-> a]]
          /\ halted' = IF FrameFromStartingAddressOk(a) THEN "no"
                       ELSE "assertion failed: starting_address & 0xFFF == 0"
    /\ UNCHANGED <<DIRECT_MAP_START, PHYSICAL_MEMORY_SIZE, memory_map, mem, allocator,
                   allocLog, sumAtNew, pml4, mapLog, overflow_checks, iterator, boot>>

\* Leaf entries handed to frame(): present entries with address 0x5000, 0 and
\* 0xF_FFFF_FFFF_F000.
LeafEntrySamples == {U(20483), U(3), <<61443, 65535, 65535, 15>>}

\* PageTableEntry::frame(), page_table.rs:406-413: the address is passed
\* through PhysicalAddress::new and Frame::from_starting_address.
PageTableEntryFrame ==
    /\ halted = "no"
    /\ call = NoCall
    /\ \E e \in LeafEntrySamples :
          LET ok == /\ PhysicalAddressNewOk(EntryAddressBits(e), PHYSICAL_MEMORY_SIZE)
                    /\ FrameFromStartingAddressOk(EntryAddressBits(e))
          IN  /\ call' = [fn |-> "PageTableEntry::frame", arg |-> e, ok |-> ok,
                          value |-> [starting_address |-> EntryAddressBits(e)]]
              /\ halted' = IF ok THEN "no" ELSE "PhysicalAddress::new assertion failed"
    /\ UNCHANGED <<DIRECT_MAP_START, PHYSICAL_MEMORY_SIZE, memory_map, mem, allocator,
                   allocLog, sumAtNew, pml4, mapLog, overflow_checks, iterator, boot>>

\* align_of the table struct of a level: PML4 has no #[repr(align(4096))].
TableAlign(level) == IF level = "PML4" THEN 8 ELSE 4096

TableLevels == {"PML4", "Pdpt", "PageDirectory", "PageTable"}

\* PML4::new(), Pdpt::new(), PageDirectory::new(), PageTable::new().  call
\* keeps the outcome: the pointer returned, the frames allocate() handed to
\* the call and the page as it was before.
TableLevelNew ==
    /\ halted = "no"
    /\ allocator.constructed
    /\ call = NoCall
    /\ \E level \in TableLevels :
          \E r \in {TableNew([mem |-> mem, al |-> allocator, log |-> allocLog, panic |-> "no",
                               table |-> U64Zero, leaf |-> U64Zero], TableAlign(level))} :
              /\ mem' = r.mem
              /\ allocator' = r.al
              /\ allocLog' = r.log
              /\ halted' = r.panic
              /\ call' = [fn |-> "new", level |-> level, ok |-> r.panic = "no",
                          pointer |-> r.table, mem_before |-> mem,
                          frames |-> SubSeq(r.log, Len(allocLog) + 1, Len(r.log))]
    /\ UNCHANGED <<DIRECT_MAP_START, PHYSICAL_MEMORY_SIZE, memory_map,
                   sumAtNew, pml4, mapLog, overflow_checks, iterator, boot>>

NextPmm ==
    \/ New
    \/ Allocate
    \/ Free
    \/ FrameFromStartingAddress
    \/ PageTableEntryFrame
    \/ TableLevelNew

SpecPmm == InitPmm /\ [][NextPmm]_vars

---------------------------------------------------------------------------
(* page_table.rs: map                                                      *)

\* The entries of the table a direct-mapped pointer refers to.
TableAt(m, ptr) == m[PtrPage(DIRECT_MAP_START, ptr)]

\* map(), lines 456-467: from the PML4 entry (a copy) to the Pdpt.  A new
\* Pdpt is recorded in the copy only, after set_pdpt has passed its pointer
\* through VirtualAddress::create and DirectMappedAddress::from_virtual.
MapPdpt(k, pml4_entry) ==
    IF EntryPresent(pml4_entry)
    THEN CHOOSE r \in {[k EXCEPT !.panic = p.panic, !.table = p.pointer]
                       : p \in {NextTablePointer(pml4_entry)}} : TRUE
    ELSE CHOOSE r \in
      {IF k2.panic # "no" THEN k2
       ELSE IF ~VirtualAddressCreateOk(k2.table)
       THEN [k2 EXCEPT !.panic = "Attempted to create non canonical virtual address"]
       ELSE CHOOSE r2 \in {[k2 EXCEPT !.panic = dm.panic]
                           : dm \in {FromVirtual(k2.table)}} : TRUE
       : k2 \in {TableNew(k, 4096)}} : TRUE

\* Mutant: the page-size bit of a present entry is not looked at.
MapNextLevel_IgnoresPageSize(k, entry) ==
    IF k.panic # "no" THEN k
    ELSE IF EntryPresent(entry)
    THEN CHOOSE r \in {[k EXCEPT !.panic = p.panic, !.table = p.pointer]
                       : p \in {NextTablePointer(entry)}} : TRUE
    ELSE TableNew(k, 4096)

\* map(), lines 469-479 and 480-490: from a Pdpt or page-directory entry (a
\* copy) to the next table.  A table created here is not recorded anywhere.
MapNextLevel(k, entry) ==
    IF k.panic # "no" THEN k
    ELSE IF EntryPresent(entry)
    THEN IF EntryPageSize(entry)
         THEN [k EXCEPT !.panic = "Tried to map already mapped page!"]
         ELSE CHOOSE r \in {[k EXCEPT !.panic = p.panic, !.table = p.pointer]
                            : p \in {NextTablePointer(entry)}} : TRUE
    ELSE TableNew(k, 4096)

\* map(), lines 497-499: the value of the local page_table_entry at the end.
MapLeafEntry(page_table_entry, frame, writable, no_execute) ==
    SetExecuteDisable(SetReadWrite(SetAddress(page_table_entry, frame), writable), no_execute)

\* map(), lines 491-500: the leaf entry is copied out of the table, asserted
\* absent and filled in; the copy is dropped when map returns.
MapLeaf(k, page_table_entry, frame, writable, no_execute) ==
    IF k.panic # "no" THEN k
    ELSE IF EntryPresent(page_table_entry)
    THEN [k EXCEPT !.panic = "tried to map already mapped page"]
    ELSE IF ~is_frame_aligned(frame)
    THEN [k EXCEPT !.panic = "Attempted to map page to non-frame-aligned physical address"]
    ELSE [k EXCEPT !.leaf = MapLeafEntry(page_table_entry, frame, writable, no_execute)]

\* The entries of the top-level table self refers to: a PML4 held by value
\* (Cr3::pml4 copies it out of memory) or one living in a frame (PML4::new).
TopEntries(m, top) == IF top.kind = "value" THEN top.entries ELSE m[top.page]

\* The entry a walk state's table holds at an index, copied out.
EntryOf(k, index) == Word(TableAt(k.mem, k.table), index)

\* PML4::map, lines 449-500, as a whole.  Each step is computed once and its
\* result handed to the next.
MapOutcome(m, al, log, top, frame, v, writable, no_execute) ==
    LET va == VirtualAddressFrom(v)
        k0 == [mem |-> m, al |-> al, log |-> log, panic |-> "no",
               table |-> U64Zero, leaf |-> U64Zero]
    IN  CHOOSE k4 \in
          {IF k3.panic # "no" THEN k3
           ELSE CHOOSE r \in {MapLeaf(k3, e, frame, writable, no_execute)
                              : e \in {EntryOf(k3, va.page_table_index)}} : TRUE
           : k3 \in
          {IF k2.panic # "no" THEN k2
           ELSE CHOOSE r \in {MapNextLevel(k2, e)
                              : e \in {EntryOf(k2, va.page_directory_index)}} : TRUE
           : k2 \in
          {IF k1.panic # "no" THEN k1
           ELSE CHOOSE r \in {MapNextLevel(k1, e)
                              : e \in {EntryOf(k1, va.pdpt_index)}} : TRUE
           : k1 \in
          {MapPdpt(k0, e) : e \in {Word(TopEntries(m, top), va.pml4_index)}}}}} : TRUE

---------------------------------------------------------------------------
(* page_table.rs: PageTableIterator                                        *)

\* set_pml4_index / set_pdpt_index: the bitfield setter of a 9-bit field
\* rejects a value that does not fit.
IndexFits(i) == i < 512

\* PML4::iterator, lines 502-508: current = VirtualAddress::create(0).
IteratorStart == VirtualAddressFrom(U64Zero)

\* PageTableIterator::next, lines 571-609, up to its return or its call to
\* itself (result "next").  entries are the entries of self.page_table.  Both
\* presence tests read self.page_table.entries (lines 578 and 591).  No path
\* produces an item: the body ends at line 607 after reading the Pdpt entry.
IteratorNextBody(entries, current) ==
    LET sum == U64AddCarry(VirtualAddressInto(current), U(4096))
        cur == VirtualAddressFrom(sum.val)
        stop(res, p) == [result |-> res, panic |-> p, current |-> cur]
        again(c) == [result |-> "next", panic |-> "no", current |-> c]
    IN  IF sum.overflow THEN [result |-> "None", panic |-> "no", current |-> current]
        ELSE IF ~VirtualAddressCreateOk(sum.val)
        THEN [result |-> "panic", current |-> current,
              panic |-> "Attempted to create non canonical virtual address"]
        ELSE IF ~EntryPresent(Word(entries, cur.pml4_index))
        THEN IF cur.pml4_index = 512 THEN stop("None", "no")
             ELSE IF ~IndexFits(cur.pml4_index + 1) THEN stop("panic", "value out of bounds")
             ELSE again([cur EXCEPT !.pml4_index = cur.pml4_index + 1, !.pdpt_index = 0,
                                    !.page_directory_index = 0, !.page_table_index = 0])
        ELSE IF NextTablePointer(Word(entries, cur.pml4_index)).panic # "no"
        THEN stop("panic", NextTablePointer(Word(entries, cur.pml4_index)).panic)
        ELSE IF ~EntryPresent(Word(entries, cur.pdpt_index))
        THEN IF cur.pdpt_index = 512 /\ cur.pml4_index = 512 THEN stop("None", "no")
             ELSE IF cur.pdpt_index = 512 /\ ~IndexFits(cur.pml4_index + 1)
             THEN stop("panic", "value out of bounds")
             ELSE IF ~IndexFits((IF cur.pdpt_index = 512 THEN 0 ELSE cur.pdpt_index) + 1)
             THEN stop("panic", "value out of bounds")
             ELSE again([cur EXCEPT
                    !.pml4_index = IF cur.pdpt_index = 512 THEN cur.pml4_index + 1
                                   ELSE cur.pml4_index,
                    !.pdpt_index = (IF cur.pdpt_index = 512 THEN 0 ELSE cur.pdpt_index) + 1,
                    !.page_directory_index = 0, !.page_table_index = 0])
        ELSE stop("panic", "not yet implemented: Todo, handle huge pages.")

\* The body repeated from outcome b for as long as it ends in "return
\* self.next()", at most n times; the repetition is split in halves.
RECURSIVE IteratorRepeat(_, _, _)
IteratorRepeat(entries, b, n) ==
    IF b.result # "next" \/ n = 0 THEN b
    ELSE IF n = 1 THEN IteratorNextBody(entries, b.current)
    ELSE CHOOSE r \in {IteratorRepeat(entries, half, n - (n \div 2))
                       : half \in {IteratorRepeat(entries, b, n \div 2)}} : TRUE

\* PageTableIterator::next with its calls to itself.  A call to itself follows
\* a pml4_index or pdpt_index raised by one, so there are fewer than 2 * 512.
IteratorNextOutcome(entries, current) ==
    IteratorRepeat(entries, [result |-> "next", panic |-> "no", current |-> current], 2 * 512)

---------------------------------------------------------------------------
(* Frame allocator: properties                                             *)

RECURSIVE UsablePagesFrom(_, _)
UsablePagesFrom(map, i) ==
    IF i > Len(map) THEN 0
    ELSE (IF map[i].usable THEN map[i].len \div PageSize ELSE 0) + UsablePagesFrom(map, i + 1)

\* Total of (len >> 12) over the usable entries of the memory map.
UsablePages(map) == UsablePagesFrom(map, 1)

\* Number of allocate() calls that returned a frame (a non-null starting address).
Successes(log) == Cardinality({i \in 1 .. Len(log) : log[i] # U64Zero})

\* C4: immediately after MemoryMapAllocator::new the sizes of the free-list
\* nodes reachable from first_node add up to the usable page count of the map.
C4_SumAfterNewIsUsablePages ==
    allocator.constructed => sumAtNew = UsablePages(memory_map)

\* C5: after any sequence of allocate() calls the free-list sum equals its
\* value right after new() minus the number of calls that returned a frame.
C5_SumDropsByAllocations ==
    (allocator.constructed /\ halted = "no")
        => FreeListSum(mem, allocator) = sumAtNew - Successes(allocLog)

\* C6: no two allocate() calls that return a frame return the same address.
C6_NoFrameReturnedTwice ==
    \A i, j \in 1 .. Len(allocLog) :
        (i < j /\ allocLog[i] # U64Zero) => allocLog[i] # allocLog[j]

\* C7: once an allocate() call has reported exhaustion (the null frame), every
\* later call reports exhaustion too, and allocate() never panics over an
\* empty list.
C7_ExhaustionIsStable ==
    /\ \A i, j \in 1 .. Len(allocLog) :
          (i < j /\ allocLog[i] = U64Zero) => allocLog[j] = U64Zero
    /\ halted # "First node is null!"

\* C7 witness: exhaustion was reported and a later call reported it again.
C7_Witness ==
    /\ halted = "no"
    /\ \E i \in 1 .. Len(allocLog) - 1 :
          /\ allocLog[i] = U64Zero
          /\ allocLog[i + 1] = U64Zero
          /\ \E h \in 1 .. i - 1 : allocLog[h] # U64Zero

\* The frames the scenario of C8 expects, call by call.
ScenarioFrames(i) ==
    IF i = 1 THEN U(16384) ELSE IF i = 2 THEN U(12288) ELSE IF i = 3 THEN U(8192)
    ELSE IF i = 4 THEN U(4096) ELSE U64Zero

\* C8: with the single usable entry {base 0x1000, len 0x4000} the calls return
\* 0x4000, 0x3000, 0x2000, 0x1000 in that order and exhaustion from the fifth on.
C8_ScenarioOrder ==
    (memory_map = MapScenario /\ allocator.constructed)
        => /\ halted = "no"
           /\ \A i \in 1 .. Len(allocLog) : allocLog[i] = ScenarioFrames(i)

---------------------------------------------------------------------------
(* Address types: the functions of memory.rs applied to sampled u64 values *)

Limb0Samples == {0, 1, 4095, 4096, 4097, 20479, 20480, 36864, 65535}
Limb1Samples == {0, 1, 31, 32, 16384, 65535}
Limb2Samples == {0, 1, 127, 128, 32767, 32768, 65535}
Limb3Samples == {0, 1, 32767, 32768, 65534, 65535}

U64Samples ==
    {<<a, b, c, d>> : a \in Limb0Samples, b \in Limb1Samples,
                      c \in Limb2Samples, d \in Limb3Samples}

\* Values PHYSICAL_MEMORY_SIZE takes: 0x5000, 0x9000 and 4 GiB.
MemorySizeSamples == {U(20480), U(36864), <<0, 0, 1, 0>>}

InitAddr ==
    /\ DIRECT_MAP_START = HhdmOffset
    /\ PHYSICAL_MEMORY_SIZE \in MemorySizeSamples
    /\ overflow_checks \in BOOLEAN
    /\ memory_map = <<>>
    /\ mem = NoWords
    /\ allocator = [constructed |-> FALSE, physical_memory_offset |-> U64Zero,
                    first_node |-> U64Zero]
    /\ halted = "no"
    /\ allocLog = <<>>
    /\ sumAtNew = 0
    /\ pml4 = NoTable
    /\ mapLog = <<>>
    /\ iterator = NoIterator
    /\ boot = "done"
    /\ call = NoCall

\* PhysicalAddress::new(address)
PhysicalAddressNew ==
    /\ halted = "no"
    /\ call = NoCall
    /\ \E p \in U64Samples :
          LET ok == PhysicalAddressNewOk(p, PHYSICAL_MEMORY_SIZE)
          IN  /\ call' = [fn |-> "PhysicalAddress::new", arg |-> p, ok |-> ok,
                          value |-> [address |-> p]]
              /\ halted' = IF ok THEN "no" ELSE "PhysicalAddress::new assertion failed"
    /\ UNCHANGED <<DIRECT_MAP_START, PHYSICAL_MEMORY_SIZE, memory_map, mem, allocator,
                   allocLog, sumAtNew, pml4, mapLog, overflow_checks, iterator, boot>>

\* VirtualAddress::create(virtual_address)
VirtualAddressCreate ==
    /\ halted = "no"
    /\ call = NoCall
    /\ \E v \in U64Samples :
          LET ok == VirtualAddressCreateOk(v)
          IN  /\ call' = [fn |-> "VirtualAddress::create", arg |-> v, ok |-> ok,
                          value |-> VirtualAddressFrom(v)]
              /\ halted' = IF ok THEN "no"
                           ELSE "Attempted to create non canonical virtual address"
    /\ UNCHANGED <<DIRECT_MAP_START, PHYSICAL_MEMORY_SIZE, memory_map, mem, allocator,
                   allocLog, sumAtNew, pml4, mapLog, overflow_checks, iterator, boot>>

\* Canonical values, the ones a VirtualAddress built by create holds.
CanonicalSamples == {v \in U64Samples : VirtualAddressCreateOk(v)}

\* DirectMappedAddress::from_virtual(VirtualAddress::create(v))
DirectMappedFromVirtual ==
    /\ halted = "no"
    /\ call = NoCall
    /\ \E v \in CanonicalSamples :
          \E r \in {FromVirtual(v)} :
              /\ call' = [fn |-> "DirectMappedAddress::from_virtual", arg |-> v,
                          ok |-> r.panic = "no",
                          value |-> [physical_address |-> r.physical_address]]
              /\ halted' = r.panic
    /\ UNCHANGED <<DIRECT_MAP_START, PHYSICAL_MEMORY_SIZE, memory_map, mem, allocator,
                   allocLog, sumAtNew, pml4, mapLog, overflow_checks, iterator, boot>>

\* DirectMappedAddress::try_from_virtual(VirtualAddress::create(v))
DirectMappedTryFromVirtual ==
    /\ halted = "no"
    /\ call = NoCall
    /\ \E v \in CanonicalSamples :
          \E r \in {TryFromVirtual(v)} :
              call' = [fn |-> "DirectMappedAddress::try_from_virtual", arg |-> v,
                       ok |-> r.some, value |-> [physical_address |-> r.physical_address]]
    /\ UNCHANGED <<DIRECT_MAP_START, PHYSICAL_MEMORY_SIZE, memory_map, mem, allocator,
                   halted, allocLog, sumAtNew, pml4, mapLog, overflow_checks, iterator, boot>>

\* Object sizes handed to as_pointer: 8 bytes, a page, two pages, 2^64 - 4096.
SizeSamples == {U(8), U(4096), U(8192), <<61440, 65535, 65535, 65535>>}

\* align_of::<T>() of the types pointed to.
AlignSamples == {1, 8, 4096}

\* DirectMappedAddress { physical_address }.as_pointer::<T>() and
\* .as_pointer_with_size::<T>(size), for a physical address inside memory.
DirectMappedAsPointer ==
    /\ halted = "no"
    /\ call = NoCall
    /\ \E pa \in {p \in U64Samples : U64Lt(p, PHYSICAL_MEMORY_SIZE)},
          size \in SizeSamples, align \in AlignSamples :
          \E r \in {AsPointer(pa, size, align)} :
              /\ call' = [fn |-> "DirectMappedAddress::as_pointer", arg |-> pa,
                          size |-> size, align |-> align,
                          ok |-> r.panic = "no", value |-> [pointer |-> r.pointer]]
              /\ halted' = r.panic
    /\ UNCHANGED <<DIRECT_MAP_START, PHYSICAL_MEMORY_SIZE, memory_map, mem, allocator,
                   allocLog, sumAtNew, pml4, mapLog, overflow_checks, iterator, boot>>

NextAddr ==
    \/ PhysicalAddressNew
    \/ VirtualAddressCreate
    \/ DirectMappedFromVirtual
    \/ DirectMappedTryFromVirtual
    \/ DirectMappedAsPointer
    \/ PageTableEntryFrame

SpecAddr == InitAddr /\ [][NextAddr]_vars

\* C1: PhysicalAddress::new(p) returns a PhysicalAddress holding p exactly when
\* 0x1000 <= p < PHYSICAL_MEMORY_SIZE, and panics for every other p.
C1_PhysicalAddressNewRange ==
    call.fn = "PhysicalAddress::new" =>
        /\ call.ok <=> (U64Le(U(4096), call.arg) /\ U64Lt(call.arg, PHYSICAL_MEMORY_SIZE))
        /\ call.ok => (call.value.address = call.arg /\ halted = "no")
        /\ ~call.ok => halted # "no"

\* C1 witness: the lowest accepted address, 0x1000, was constructed.
C1_Witness ==
    call.fn = "PhysicalAddress::new" /\ call.ok /\ call.arg = U(4096)

\* C2: VirtualAddress::create(v) succeeds exactly when bits 63..48 of v all
\* equal bit 47 of v, and panics for every other v.
C2_CreateIffCanonical ==
    call.fn = "VirtualAddress::create" =>
        /\ call.ok <=> (\A i \in 48 .. 63 : Bit(call.arg, i) = Bit(call.arg, 47))
        /\ call.ok <=> halted = "no"

\* C2 witness: a higher-half address (bit 47 and bits 63..48 all set) was accepted.
C2_Witness ==
    /\ call.fn = "VirtualAddress::create" /\ call.ok
    /\ Bit(call.arg, 47) = 1 /\ call.arg[4] = 65535

\* The fields of a VirtualAddress recombined with u64 arithmetic.
Recombine(va) ==
    U64Add(U(va.page_offset),
    U64Add(U64Shl(U(va.page_table_index), 12),
    U64Add(U64Shl(U(va.page_directory_index), 21),
    U64Add(U64Shl(U(va.pdpt_index), 30),
    U64Add(U64Shl(U(va.pml4_index), 39),
           U64Shl(U(va.sign_extension), 48))))))

\* C3: for canonical v the VirtualAddress built by create(v) has address() = v,
\* and its fields recombined with their bit positions give v.
C3_RoundTrip ==
    (call.fn = "VirtualAddress::create" /\ call.ok) =>
        /\ address(call.value) = call.arg
        /\ Recombine(call.value) = call.arg

\* C3 witness: a canonical address with every field non-zero was built.
C3_Witness ==
    /\ call.fn = "VirtualAddress::create" /\ call.ok
    /\ call.value.page_offset # 0 /\ call.value.page_table_index # 0
    /\ call.value.page_directory_index # 0 /\ call.value.pdpt_index # 0
    /\ call.value.pml4_index # 0 /\ call.value.sign_extension # 0

---------------------------------------------------------------------------
(* Page-table hierarchy: the hierarchy the bootloader leaves behind, and   *)
(* map() called on it                                                      *)

\* Number of map() calls followed.
MaxMaps == 2

\* A present, writable entry referring to the given physical page.
EntryTo(page) == U(page * PageSize + 3)

\* A present, writable entry with the page-size bit set: a huge page at
\* physical address 0.
HugeEntry == U(131)

\* The bootloader's tables occupy the reserved pages 3..6 of MapTwoRegions:
\* PML4 at page 3, and along virtual address 0x1000 as many further levels
\* as depth says: Pdpt at 4, page directory at 5, page table at 6, and for
\* depth 4 a leaf entry mapping 0x1000 to the frame at page 5.  With huge,
\* the entry of the last level is a huge page instead: the Pdpt entry for
\* depth 2 (1 GiB), the page-directory entry for depth 3 (2 MiB).
BootDepths == 1 .. 4

BootShapes == {<<d, h>> : d \in BootDepths, h \in BOOLEAN} \ {<<1, TRUE>>, <<4, TRUE>>}

BootTables(depth, huge) ==
    [pg \in 3 .. 6 |->
        IF pg = 3 THEN WriteWord(NoWords, 0, EntryTo(4))
        ELSE IF pg = 4 /\ depth >= 2
        THEN WriteWord(NoWords, 0, IF depth = 2 /\ huge THEN HugeEntry ELSE EntryTo(5))
        ELSE IF pg = 5 /\ depth >= 3
        THEN WriteWord(NoWords, 0, IF depth = 3 /\ huge THEN HugeEntry ELSE EntryTo(6))
        ELSE IF pg = 6 /\ depth >= 4 THEN WriteWord(NoWords, 1, EntryTo(5))
        ELSE NoWords]

\* Virtual addresses handed to map(): 0x1000, 0x2000 (same page table, next
\* index), 0x20_0000 (same page directory, next index) and 0x80_0000_0000
\* (PML4 index 1, absent in the boot hierarchy).
VaSamples == {U(4096), U(8192), <<0, 32, 0, 0>>, <<0, 0, 128, 0>>}

\* (frame, (writable, no_execute)) as handed to map(): the pages at 0x8000
\* and 0x2000, each with one pair of flags.
MapArgSamples == {<<U(32768), <<TRUE, FALSE>>>>, <<U(8192), <<FALSE, TRUE>>>>}

\* CR3 holds the physical address of the bootloader's PML4, page 3.
Cr3Address == U(3 * PageSize)

InitMap ==
    /\ DIRECT_MAP_START = HhdmOffset
    /\ memory_map = MapTwoRegions
    /\ PHYSICAL_MEMORY_SIZE = U(HighestAddress(memory_map, 1))
    /\ overflow_checks \in BOOLEAN
    /\ \E g \in [UsableBasePages(memory_map) -> GarbageHeaders(memory_map)],
          shape \in BootShapes :
          mem = [pg \in RamPages(memory_map) |->
                    IF pg \in DOMAIN g THEN HeaderPage(g[pg])
                    ELSE IF pg \in 3 .. 6 THEN BootTables(shape[1], shape[2])[pg]
                    ELSE NoWords]
    /\ allocator = NewAllocator(memory_map, DIRECT_MAP_START)
    /\ halted = "no"
    /\ allocLog = <<>>
    /\ sumAtNew = FreeListSum(mem, allocator)
    /\ pml4 = NoTable
    /\ mapLog = <<>>
    /\ iterator = NoIterator
    /\ boot = "done"
    /\ call = NoCall

\* The hierarchy CR3 refers to, as a top-level table living in its frame.
Cr3Table == [kind |-> "page", page |-> ToNat(Cr3Address) \div PageSize]

\* The pages of the tables below entries that are reached through present,
\* non-huge entries of the levels above the page tables.
RECURSIVE TablesBelow(_, _, _)
TablesBelow(m, entries, level) ==
    UNION {LET e == entries[i]
               next == EntryAddressBits(e)
           IN  IF ~EntryPresent(e) \/ level = 4 \/ EntryPageSize(e) \/ ~FitsNat(next)
                  \/ (ToNat(next) \div PageSize) \notin DOMAIN m THEN {}
               ELSE {ToNat(next) \div PageSize}
                    \cup TablesBelow(m, m[ToNat(next) \div PageSize], level + 1)
           : i \in DOMAIN entries}

\* The pages of all tables of the hierarchy of a top-level table that lives
\* in a frame.
TablePages(m, top) == {top.page} \cup TablesBelow(m, TopEntries(m, top), 1)

\* main.rs:127, registers.rs:92-96: cr3.pml4() reads the PML4 out of memory,
\* by value: the copy of the PML4 struct (#[derive(Clone, Copy)]).  original
\* records the tables of the hierarchy copied, as they were at the copy.
Cr3Pml4 ==
    /\ halted = "no"
    /\ pml4 = NoTable
    /\ pml4' = [kind |-> "value",
                entries |-> mem[PtrPage(DIRECT_MAP_START, U64Add(Cr3Address, DIRECT_MAP_START))],
                original |-> [pg \in TablePages(mem, Cr3Table) |-> mem[pg]]]
    /\ UNCHANGED <<DIRECT_MAP_START, PHYSICAL_MEMORY_SIZE, call, memory_map, mem, allocator,
                   halted, allocLog, sumAtNew, mapLog, overflow_checks, iterator, boot>>

\* PML4::new(), page_table.rs:432-446.
PML4New ==
    /\ halted = "no"
    /\ pml4 = NoTable
    /\ \E r \in {TableNew([mem |-> mem, al |-> allocator, log |-> allocLog, panic |-> "no",
                            table |-> U64Zero, leaf |-> U64Zero], 8)} :
          /\ mem' = r.mem
          /\ allocator' = r.al
          /\ allocLog' = r.log
          /\ halted' = r.panic
          /\ pml4' = IF r.panic = "no"
                     THEN [kind |-> "page", page |-> PtrPage(DIRECT_MAP_START, r.table)]
                     ELSE NoTable
    /\ UNCHANGED <<DIRECT_MAP_START, PHYSICAL_MEMORY_SIZE, call, memory_map,
                   sumAtNew, mapLog, overflow_checks, iterator, boot>>

\* The level (2 for the Pdpt, 3 for the page directory) at which the walk of
\* the stored tables by v's indices meets a present entry with the page-size
\* bit set; 0 when it meets none.
RECURSIVE HugeAt(_, _, _, _)
HugeAt(m, entries, idx, level) ==
    LET e == Word(entries, idx[level])
        next == EntryAddressBits(e)
    IN  IF ~EntryPresent(e) THEN 0
        ELSE IF level \in {2, 3} /\ EntryPageSize(e) THEN level
        ELSE IF level = 3 \/ ~FitsNat(next) \/ (ToNat(next) \div PageSize) \notin DOMAIN m THEN 0
        ELSE HugeAt(m, m[ToNat(next) \div PageSize], idx, level + 1)

\* The four table indices of a virtual address.
Indices(v) ==
    <<VirtualAddressFrom(v).pml4_index, VirtualAddressFrom(v).pdpt_index,
      VirtualAddressFrom(v).page_directory_index, VirtualAddressFrom(v).page_table_index>>

\* The pages of all tables of the hierarchy below a top-level table, and the
\* top-level table's own page when it lives in a frame.
HierarchyPages(m, top) ==
    TablesBelow(m, TopEntries(m, top), 1) \cup (IF top.kind = "page" THEN {top.page} ELSE {})

\* self.map(frame, virtual_address, writable, no_execute).  mapLog keeps the
\* arguments and the outcome, with what the tables held before the call.
Map ==
    /\ halted = "no"
    /\ pml4.kind # "none"
    /\ iterator = NoIterator
    /\ Len(mapLog) < MaxMaps
    /\ \E arg \in MapArgSamples, v \in VaSamples :
          \E frame \in {arg[1]}, flags \in {arg[2]},
             r \in {MapOutcome(mem, allocator, allocLog, pml4, arg[1], v, arg[2][1], arg[2][2])} :
              /\ mem' = r.mem
              /\ allocator' = r.al
              /\ allocLog' = r.log
              /\ halted' = r.panic
              /\ mapLog' = Append(mapLog,
                     [va |-> v, frame |-> frame, writable |-> flags[1],
                      no_execute |-> flags[2], returned |-> r.panic = "no",
                      panic |-> r.panic,
                      huge |-> HugeAt(mem, TopEntries(mem, pml4), Indices(v), 1),
                      tables_kept |-> \A pg \in HierarchyPages(mem, pml4) : r.mem[pg] = mem[pg],
                      allocs |-> Len(r.log) - Len(allocLog),
                      empty_top |-> \A i \in DOMAIN TopEntries(mem, pml4) :
                                       ~EntryPresent(TopEntries(mem, pml4)[i])])
    /\ UNCHANGED <<DIRECT_MAP_START, PHYSICAL_MEMORY_SIZE, call, memory_map,
                   sumAtNew, pml4, overflow_checks, iterator, boot>>

\* self.iterator(), page_table.rs:502-508.  The iterator borrows the table,
\* so no map() follows while it is in use.
Iterator ==
    /\ halted = "no"
    /\ pml4.kind # "none"
    /\ iterator = NoIterator
    /\ iterator' = [state |-> "running", current |-> IteratorStart, yielded |-> <<>>]
    /\ UNCHANGED <<DIRECT_MAP_START, PHYSICAL_MEMORY_SIZE, call, memory_map, mem, allocator,
                   halted, allocLog, sumAtNew, pml4, mapLog, overflow_checks, boot>>

\* iterator.next(), page_table.rs:571-609.
IteratorNext ==
    /\ halted = "no"
    /\ iterator.state = "running"
    /\ \E r \in {IteratorNextOutcome(TopEntries(mem, pml4), iterator.current)} :
          /\ halted' = r.panic
          /\ iterator' = [iterator EXCEPT !.current = r.current,
                             !.state = IF r.result = "None" THEN "finished" ELSE "running"]
    /\ UNCHANGED <<DIRECT_MAP_START, PHYSICAL_MEMORY_SIZE, call, memory_map, mem, allocator,
                   allocLog, sumAtNew, pml4, mapLog, overflow_checks, boot>>

NextMap == Cr3Pml4 \/ PML4New \/ Map \/ Iterator \/ IteratorNext

SpecMap == InitMap /\ [][NextMap]_vars

\* The leaf entry the stored tables hold for v, reached from the top-level
\* table through present entries only; the zero entry when the walk meets an
\* absent entry, a huge page or an address outside memory.
RECURSIVE WalkFrom(_, _, _, _)
WalkFrom(m, entries, idx, level) ==
    LET e == Word(entries, idx[level])
        next == EntryAddressBits(e)
    IN  IF ~EntryPresent(e) THEN U64Zero
        ELSE IF level = 4 THEN e
        ELSE IF EntryPageSize(e) \/ ~FitsNat(next)
                \/ (ToNat(next) \div PageSize) \notin DOMAIN m THEN U64Zero
        ELSE WalkFrom(m, m[ToNat(next) \div PageSize], idx, level + 1)

StoredLeaf(m, top, v) ==
    LET va == VirtualAddressFrom(v)
    IN  WalkFrom(m, TopEntries(m, top),
                 <<va.pml4_index, va.pdpt_index, va.page_directory_index,
                   va.page_table_index>>, 1)

\* C9: once map(f1, va, ..) has returned, a later map(f2, va, ..) on the same
\* top-level table panics and va stays mapped to f1.
C9_SecondMapAborts ==
    \A i, j \in 1 .. Len(mapLog) :
        (i < j /\ mapLog[i].returned /\ mapLog[i].va = mapLog[j].va)
            => /\ ~mapLog[j].returned
               /\ EntryPresent(StoredLeaf(mem, pml4, mapLog[i].va))
               /\ EntryAddressBits(StoredLeaf(mem, pml4, mapLog[i].va)) = mapLog[i].frame

\* C10: after map(frame, va, writable, no_execute) has returned, the walk of
\* the stored tables by va's four indices ends at a present leaf entry whose
\* address is the frame's, whose read_write bit is writable and whose
\* execute_disable bit is no_execute.
C10_MapInstallsLeaf ==
    (mapLog # <<>> /\ mapLog[Len(mapLog)].returned) =>
        LET last == mapLog[Len(mapLog)]
            leaf == StoredLeaf(mem, pml4, last.va)
        IN  /\ EntryPresent(leaf)
            /\ EntryAddressBits(leaf) = last.frame
            /\ EntryReadWrite(leaf) = last.writable
            /\ EntryExecuteDisable(leaf) = last.no_execute

\* The virtual address whose four table indices are idx (page offset 0, sign
\* extension following bit 47).
AddressOfIndices(idx) ==
    VirtualAddressInto([page_offset |-> 0, page_table_index |-> idx[4],
                        page_directory_index |-> idx[3], pdpt_index |-> idx[2],
                        pml4_index |-> idx[1],
                        sign_extension |-> IF idx[1] >= 256 THEN 65535 ELSE 0])

\* The (virtual address, frame address) pairs of the present leaf entries that
\* the stored tables hold below entries, reached through present entries.
RECURSIVE LeavesBelow(_, _, _, _)
LeavesBelow(m, entries, prefix, level) ==
    UNION {LET e == entries[i]
               next == EntryAddressBits(e)
           IN  IF ~EntryPresent(e) THEN {}
               ELSE IF level = 4 THEN {<<AddressOfIndices(Append(prefix, i)), next>>}
               ELSE IF EntryPageSize(e) \/ ~FitsNat(next)
                       \/ (ToNat(next) \div PageSize) \notin DOMAIN m THEN {}
               ELSE LeavesBelow(m, m[ToNat(next) \div PageSize], Append(prefix, i), level + 1)
           : i \in DOMAIN entries}

LeafMappings(m, top) == LeavesBelow(m, TopEntries(m, top), <<>>, 1)

\* The pairs an iterator has yielded, as a set.
Yielded == {iterator.yielded[i] : i \in 1 .. Len(iterator.yielded)}

\* C11: map(frame, 0x1000, ..) as the first call on a top-level table with no
\* present entries returns after exactly 3 allocate() calls, and enumerating
\* the hierarchy afterwards neither panics nor yields anything but the one
\* pair (0x1000, frame), which is also what the stored tables hold.
C11_EmptyTopScenario ==
    (Len(mapLog) = 1 /\ mapLog[1].empty_top /\ mapLog[1].va = U(4096)) =>
        /\ mapLog[1].returned
        /\ mapLog[1].allocs = 3
        /\ LeafMappings(mem, pml4) = {<<U(4096), mapLog[1].frame>>}
        /\ iterator.state # "none" => halted = "no"
        /\ iterator.state = "finished" => Yielded = {<<U(4096), mapLog[1].frame>>}

\* C12: the copy H' of the hierarchy H enumerates the same (virtual address,
\* frame) pairs as H, and no intermediate table of H' occupies the frame of a
\* table of H.
C12_CopyIsIndependent ==
    (pml4.kind = "value" /\ mapLog = <<>>) =>
        /\ LeafMappings(mem, pml4) = LeafMappings(mem, Cr3Table)
        /\ TablesBelow(mem, TopEntries(mem, pml4), 1) \cap TablePages(mem, Cr3Table) = {}

\* C13: map() calls on the copy H' leave every table of H as it was when the
\* copy was made.
C13_MapOnCopyLeavesOriginal ==
    pml4.kind = "value" =>
        \A pg \in DOMAIN pml4.original : mem[pg] = pml4.original[pg]

\* C14: an iterator run to completion has not panicked and has yielded
\* exactly the pairs of the present leaf entries reachable from the top-level
\* table, each once, in strictly ascending virtual-address order.
C14_IteratorEnumeratesLeaves ==
    /\ iterator.state # "none" => halted = "no"
    /\ iterator.state = "finished" =>
          /\ Yielded = LeafMappings(mem, pml4)
          /\ \A i, j \in 1 .. Len(iterator.yielded) :
                i < j => U64Lt(iterator.yielded[i][1], iterator.yielded[j][1])

\* C15: for canonical v, from_virtual(v) returns and try_from_virtual(v) is
\* Some exactly when v > DIRECT_MAP_START and v - DIRECT_MAP_START <
\* PHYSICAL_MEMORY_SIZE, both then holding v - DIRECT_MAP_START; otherwise
\* from_virtual panics and try_from_virtual returns None.
C15_FromVirtualRange ==
    call.fn \in {"DirectMappedAddress::from_virtual", "DirectMappedAddress::try_from_virtual"} =>
        /\ call.ok <=> /\ U64Lt(DIRECT_MAP_START, call.arg)
                       /\ U64Lt(U64Sub(call.arg, DIRECT_MAP_START), PHYSICAL_MEMORY_SIZE)
        /\ call.ok => call.value.physical_address = U64Sub(call.arg, DIRECT_MAP_START)
        /\ call.fn = "DirectMappedAddress::from_virtual" => (call.ok <=> halted = "no")
        /\ call.fn = "DirectMappedAddress::try_from_virtual" => halted = "no"

\* C16: as_pointer returns only when physical address + size, as a sum that
\* does not wrap, is at most PHYSICAL_MEMORY_SIZE and physical address +
\* DIRECT_MAP_START is a multiple of the alignment; the pointer is then
\* physical address + DIRECT_MAP_START; in every other case the call panics.
C16_AsPointerChecked ==
    call.fn = "DirectMappedAddress::as_pointer" =>
        /\ call.ok => /\ ~U64AddCarry(call.arg, call.size).overflow
                      /\ U64Le(U64Add(call.arg, call.size), PHYSICAL_MEMORY_SIZE)
                      /\ U64Add(call.arg, DIRECT_MAP_START)[1] % call.align = 0
                      /\ call.value.pointer = U64Add(call.arg, DIRECT_MAP_START)
        /\ call.ok <=> halted = "no"

\* The allocator as it was when free() was called (free() leaves it alone).
AllocatorAtFree == [allocator EXCEPT !.first_node = call.first_node]

\* Physical address of the node at a direct-mapped pointer.
NodePhysical(ptr) == U64Sub(ptr, allocator.physical_memory_offset)

\* The free-list runs of memory m that end right below frame, and the ones
\* that start right above it.
RunsEndingAt(m, frame) ==
    {n \in call.nodes_before :
        U64Add(U64Shl(ReadNode(m, allocator.physical_memory_offset, n).size, 12),
               NodePhysical(n)) = frame}

RunsStartingAbove(m, frame) ==
    {n \in call.nodes_before : NodePhysical(n) = U64Add(frame, U(4096))}

\* The frame handed to free() was adjacent to a run of the list.
FreedFrameAdjacent ==
    RunsEndingAt(call.mem_before, call.arg) \cup RunsStartingAbove(call.mem_before, call.arg) # {}

\* The runs of the list in memory m that cover the page of frame.
RunsCovering(m, frame) ==
    {n \in ReachableNodes(m, allocator.physical_memory_offset, call.first_node, {}) :
        /\ U64Le(NodePhysical(n), frame)
        /\ U64Lt(frame, U64Add(U64Shl(ReadNode(m, allocator.physical_memory_offset, n).size, 12),
                               NodePhysical(n)))}

\* free() has put the frame into the list: one run covers it and the sizes
\* add up to one more than before.
FreedFrameInserted ==
    /\ Cardinality(RunsCovering(mem, call.arg)) = 1
    /\ FreeListSum(mem, AllocatorAtFree) = FreeListSum(call.mem_before, AllocatorAtFree) + 1

\* C17: free(frame) with a frame that ends a run or lies one page below the
\* next run returns with the frame merged: exactly one run covers the freed
\* page and the total of size is one more than before.
C17_FreeMergesAdjacent ==
    (call.fn = "free" /\ call.arg # U64Zero /\ FreedFrameAdjacent) =>
        /\ call.ok
        /\ FreedFrameInserted

\* C18: free() panics for the null frame and for a frame adjacent to no run;
\* a call that panics leaves every node's size and next as they were; a call
\* that returns has inserted the frame.
C18_FreeAbortsCleanly ==
    call.fn = "free" =>
        /\ (call.arg = U64Zero \/ ~FreedFrameAdjacent)
               => (~call.ok /\ halted # "free() never returns")
        /\ ~call.ok =>
               \A n \in call.nodes_before :
                   ReadNode(mem, allocator.physical_memory_offset, n)
                       = ReadNode(call.mem_before, allocator.physical_memory_offset, n)
        /\ call.ok => FreedFrameInserted

\* C19: every Frame produced by Frame::from_starting_address, by allocate()
\* or by a leaf entry's frame() has a starting address that is non-zero and
\* has its low 12 bits zero.
C19_FramesNonNullAligned ==
    /\ \A i \in 1 .. Len(allocLog) : allocLog[i] # U64Zero /\ LowBitsClear(allocLog[i])
    /\ (call.fn \in {"Frame::from_starting_address", "PageTableEntry::frame"} /\ call.ok)
           => (call.value.starting_address # U64Zero /\ LowBitsClear(call.value.starting_address))

C22_HugePageAborts ==
    \A i \in 1 .. Len(mapLog) :
        mapLog[i].huge # 0 =>
            /\ mapLog[i].panic = "Tried to map already mapped page!"
            /\ mapLog[i].tables_kept

\* C22 witness: a map() met a huge page-directory entry below a present Pdpt
\* entry and panicked.
C22_Witness ==
    /\ mapLog # <<>>
    /\ mapLog[Len(mapLog)].huge = 3
    /\ halted # "no"

\* Two virtual addresses that differ in their page-table index only.
SamePageTable(v1, v2) ==
    /\ v1 # v2
    /\ [VirtualAddressFrom(v1) EXCEPT !.page_table_index = 0]
           = [VirtualAddressFrom(v2) EXCEPT !.page_table_index = 0]

\* C23: once map(f1, va1, ..) has returned, a map(f2, va2, ..) on the same
\* top-level table with va2 differing from va1 in the page-table index only
\* returns without any allocate() call, and the stored tables then map va1
\* to f1 and va2 to f2.
C23_CreatedTablesInstalled ==
    \A i, j \in 1 .. Len(mapLog) :
        (i < j /\ mapLog[i].returned /\ SamePageTable(mapLog[i].va, mapLog[j].va)) =>
            /\ mapLog[j].returned
            /\ mapLog[j].allocs = 0
            /\ (j = Len(mapLog) =>
                  \A h \in {i, j} :
                      /\ EntryPresent(StoredLeaf(mem, pml4, mapLog[h].va))
                      /\ EntryAddressBits(StoredLeaf(mem, pml4, mapLog[h].va)) = mapLog[h].frame)

\* An entry keeps being present, with the same page-size bit and address.
EntryKept(before, after) ==
    EntryPresent(before) =>
        /\ EntryPresent(after)
        /\ EntryPageSize(after) = EntryPageSize(before)
        /\ EntryAddressBits(after) = EntryAddressBits(before)

\* C24: a map() call leaves every present entry of every table of the
\* hierarchy present, of the same kind and with the same target address.
C24_PresentEntriesStay ==
    [][mapLog' # mapLog =>
          \A pg \in HierarchyPages(mem, pml4) :
              \A i \in DOMAIN mem[pg] : EntryKept(mem[pg][i], Word(mem'[pg], i))]_vars

\* The (parent page, index, child page) triples of the present, non-huge
\* entries that refer to a next-level table, in the tables reached from
\* entries, which live in page parent.
RECURSIVE ParentEntries(_, _, _, _)
ParentEntries(m, entries, parent, level) ==
    UNION {LET e == entries[i]
               next == EntryAddressBits(e)
           IN  IF ~EntryPresent(e) \/ level = 4 \/ EntryPageSize(e) \/ ~FitsNat(next)
                  \/ (ToNat(next) \div PageSize) \notin DOMAIN m THEN {}
               ELSE {<<parent, i, ToNat(next) \div PageSize>>}
                    \cup ParentEntries(m, m[ToNat(next) \div PageSize],
                                       ToNat(next) \div PageSize, level + 1)
           : i \in DOMAIN entries}

\* C25: in a hierarchy whose top-level table was made by PML4::new(), the
\* tables made by new() (here and inside map()) lie in pairwise different
\* frames, and no table is referred to by two parent entries.
C25_TablesNotShared ==
    pml4.kind = "page" =>
        /\ \A i, j \in 1 .. Len(allocLog) :
              (i < j /\ allocLog[i] # U64Zero) => allocLog[i] # allocLog[j]
        /\ \A r1, r2 \in ParentEntries(mem, TopEntries(mem, pml4), pml4.page, 1) :
              r1[3] = r2[3] => r1 = r2

\* C26: the PhysicalAddress returned by PhysicalAddress::new, held by the
\* DirectMappedAddress that from_virtual or try_from_virtual returns, or
\* taken from a page-table entry lies in 0x1000 <= address < PHYSICAL_MEMORY_SIZE.
C26_PhysicalAddressesInRange ==
    /\ (call.fn = "PhysicalAddress::new" /\ call.ok)
           => (U64Le(U(4096), call.value.address)
               /\ U64Lt(call.value.address, PHYSICAL_MEMORY_SIZE))
    /\ (call.fn \in {"DirectMappedAddress::from_virtual",
                     "DirectMappedAddress::try_from_virtual"} /\ call.ok)
           => (U64Le(U(4096), call.value.physical_address)
               /\ U64Lt(call.value.physical_address, PHYSICAL_MEMORY_SIZE))
    /\ (call.fn = "PageTableEntry::frame" /\ call.ok)
           => (U64Le(U(4096), call.value.starting_address)
               /\ U64Lt(call.value.starting_address, PHYSICAL_MEMORY_SIZE))

\* The node self.first_node points to, read from memory.
HeadNode == ReadNode(mem, allocator.physical_memory_offset, allocator.first_node)

\* The step is an allocate() call that returned, made with the head node in
\* memory.
AllocateReturned ==
    /\ Len(allocLog') = Len(allocLog) + 1
    /\ call' = call
    /\ PtrInRam(mem, allocator.physical_memory_offset, allocator.first_node)

\* C27: allocate() on a head run of size 1 returns the frame at the head
\* node's physical address, makes the node's next the new head and leaves the
\* header of the returned page as size = 0, next = null.
C27_SizeOneHeadConsumed ==
    [][(AllocateReturned /\ HeadNode.size = U(1)) =>
          /\ allocLog'[Len(allocLog')] = U64Sub(allocator.first_node, allocator.physical_memory_offset)
          /\ allocator'.first_node = HeadNode.next
          /\ ReadNode(mem', allocator.physical_memory_offset, allocator.first_node)
                 = [size |-> U64Zero, next |-> U64Zero]]_vars

\* C28: allocate() on a head run of size n > 1 returns the frame at the head
\* node's physical address + (n - 1) * 4096, stores n - 1 as the head node's
\* size and leaves self.first_node and the head node's next as they were.
C28_LongHeadShrinks ==
    [][(AllocateReturned /\ U64Lt(U(1), HeadNode.size)) =>
          /\ allocLog'[Len(allocLog')]
                 = U64Add(U64Shl(U64Sub(HeadNode.size, U(1)), 12),
                          U64Sub(allocator.first_node, allocator.physical_memory_offset))
          /\ allocator'.first_node = allocator.first_node
          /\ ReadNode(mem', allocator.physical_memory_offset, allocator.first_node)
                 = [size |-> U64Sub(HeadNode.size, U(1)), next |-> HeadNode.next]]_vars

\* Number of nodes passed from ptr by following next until null; -1 when null
\* is not met within fuel nodes or a pointer leaves memory.
RECURSIVE ChainLength(_, _, _, _)
ChainLength(m, offset, ptr, fuel) ==
    IF ptr = U64Zero THEN 0
    ELSE IF fuel = 0 \/ ~PtrInRam(m, offset, ptr) THEN -1
    ELSE LET rest == ChainLength(m, offset, ReadNode(m, offset, ptr).next, fuel - 1)
         IN  IF rest = -1 THEN -1 ELSE rest + 1

\* C29: right after MemoryMapAllocator::new the nodes reachable from
\* first_node are one node per usable entry of the memory map, at the entry's
\* base plus the offset and with size = len >> 12; first_node is the node of
\* the last usable entry; following next passes every node once and ends at
\* null.
C29_ListAfterNew ==
    (allocator.constructed /\ allocLog = <<>> /\ call = NoCall /\ halted = "no") =>
        LET offset == allocator.physical_memory_offset
            usable == UsableEntries(memory_map)
            NodeOf(e) == U64Add(U(e.base), offset)
        IN  /\ ReachableNodes(mem, offset, allocator.first_node, {})
                   = {NodeOf(usable[i]) : i \in 1 .. Len(usable)}
            /\ \A i \in 1 .. Len(usable) :
                   ReadNode(mem, offset, NodeOf(usable[i])).size = U(usable[i].len \div PageSize)
            /\ allocator.first_node = NodeOf(usable[Len(usable)])
            /\ ChainLength(mem, offset, allocator.first_node, Len(usable)) = Len(usable)

\* C30: calling next() on a fresh iterator, again and again, never panics
\* and never leaves the iterator at a non-canonical address, whatever the
\* hierarchy holds, until None is returned.
C30_IteratorEndsWithoutAbort ==
    iterator.state # "none" =>
        /\ halted = "no"
        /\ VirtualAddressCreateOk(VirtualAddressInto(iterator.current))
        /\ IndexFits(iterator.current.pml4_index)

====
